---- MODULE Spec2Model ----
(***************************************************************************)
(* Model of crates/primitives/src/utilities.rs: the CREATE / CREATE2       *)
(* address derivation and the ICAN checksum encoding (to_ican,             *)
(* get_number_string, calculate_checksum, construct_ican_address).         *)
(*                                                                         *)
(* Text is a sequence of one-character strings, a byte is a number in      *)
(* 0..255, a B160 is a sequence of 20 bytes and a B176 a sequence of 22.   *)
(* Every function of the file is an operator computed as the code computes *)
(* it; a call is one action that records what the call computed, what it   *)
(* wrote to standard output and whether it returned or panicked.           *)
(***************************************************************************)
EXTENDS Integers, Sequences, FiniteSets, TLC

VARIABLES
    pc,          \* "ready": the call has not run; "done": it has returned or panicked
    call,        \* the function called and its arguments
    preimage,    \* the bytes handed to keccak256 (create_address, create2_address)
    digest,      \* the 32 bytes keccak256 returned
    raw,         \* the B160 handed to to_ican / get_number_string
    number_str,  \* the text get_number_string returned
    checksum,    \* the u64 calculate_checksum returned
    text,        \* the text handed to B176::from_str
    result,      \* the B176 returned
    outcome,     \* "none" | "ok" | "panic"
    stdout       \* the lines written to standard output

vars == <<pc, call, preimage, digest, raw, number_str, checksum, text, result,
          outcome, stdout>>

----------------------------------------------------------------------------
(* Bounds of the instance *)

\* the last byte of a sampled address ranges over 0..MaxLow
MaxLow == 11
\* calculate_checksum is called on every decimal string of 1..MaxDigits digits
MaxDigits == 3
\* create_address is called with every nonce in 0..MaxNonce (and NonceSamples)
MaxNonce == 2

----------------------------------------------------------------------------
(* Characters, digits and number formatting *)

MAINNET == <<"c", "b">>
TESTNET == <<"a", "b">>
PRIVATE == <<"c", "e">>

NetworkType == {"Mainnet", "Testnet", "Private"}

DecChars == <<"0", "1", "2", "3", "4", "5", "6", "7", "8", "9">>
LowerHexChars == DecChars \o <<"a", "b", "c", "d", "e", "f">>
UpperHexChars == DecChars \o <<"A", "B", "C", "D", "E", "F">>

None == -1

\* the widths of B160, B176, B256 and U256, in bytes
B160Len == 20
B176Len == 22
HashLen == 32
U256Bytes == 32

\* Iterator::fold and Iterator::map(..).collect() over positions lo..hi, in order:
\* step(.. step(step(acc, lo), lo + 1) .., hi).  The range is folded half by half,
\* the left half first and the right half from its result, so that the evaluation
\* nests to a depth logarithmic in the length; the order of the steps is the loop's.
RECURSIVE FoldRange(_, _, _, _)
FoldRange(step(_, _), acc, lo, hi) ==
    IF lo > hi THEN acc
    ELSE IF lo = hi THEN step(acc, lo)
    ELSE LET mid == (lo + hi) \div 2
         IN  CHOOSE r \in {FoldRange(step, left, mid + 1, hi) :
                              left \in {FoldRange(step, acc, lo, mid)}} : TRUE

\* char::to_digit(radix) for radix 10 and 16: the digit's value, or None
to_digit(ch, radix) ==
    IF \E i \in 1..radix : LowerHexChars[i] = ch
    THEN (CHOOSE i \in 1..radix : LowerHexChars[i] = ch) - 1
    ELSE IF \E i \in 1..radix : UpperHexChars[i] = ch
    THEN (CHOOSE i \in 1..radix : UpperHexChars[i] = ch) - 1
    ELSE None

\* u32::to_string / the Display of a u64: the decimal text, no padding
RECURSIVE to_string(_)
to_string(n) ==
    IF n < 10 THEN <<DecChars[n + 1]>>
    ELSE to_string(n \div 10) \o <<DecChars[(n % 10) + 1]>>

\* format!("{:?}", addr) of a fixed hash: "0x" and two lowercase hex characters a byte
LowerHex(bytes) ==
    LET step(acc, i) == acc \o <<LowerHexChars[(bytes[i] \div 16) + 1],
                                 LowerHexChars[(bytes[i] % 16) + 1]>>
    IN  FoldRange(step, <<>>, 1, Len(bytes))

DebugFormat(bytes) == <<"0", "x">> \o LowerHex(bytes)

\* replace_0x with the "0x" left in place
replace_0x_kept(s) == s

\* str::replace("0x", ""): every occurrence of "0x" removed (two occurrences of
\* "0x" cannot overlap).  Scanning left to right, an "x" that follows a "0" closes
\* an occurrence: both characters are dropped; every other character is kept.
replace_0x(s) ==
    LET step(acc, i) ==
            IF i > 1 /\ s[i] = "x" /\ s[i - 1] = "0"
            THEN SubSeq(acc, 1, Len(acc) - 1)
            ELSE Append(acc, s[i])
    IN  FoldRange(step, <<>>, 1, Len(s))

----------------------------------------------------------------------------
(* The checksum encoder *)

Prefix(network) ==
    CASE network = "Mainnet" -> MAINNET
      [] network = "Testnet" -> TESTNET
      [] network = "Private" -> PRIVATE

\* AddrStr without the "00" placeholder of the checksum
AddrStr_noplaceholder(addr, network) ==
    replace_0x(DebugFormat(addr) \o Prefix(network))

\* get_number_string, lines 80-82: the text whose characters are converted
AddrStr(addr, network) ==
    replace_0x(DebugFormat(addr) \o Prefix(network) \o <<"0", "0">>)

\* expect("Invalid Address") fails: some character is no hex digit
InvalidAddress(addr_str) ==
    \E i \in 1..Len(addr_str) : to_digit(addr_str[i], 16) = None

\* get_number_string, lines 85-88: every hex digit to decimal and then to String
DigitsToString(s) ==
    LET step(acc, i) == acc \o to_string(to_digit(s[i], 16))
    IN  FoldRange(step, <<>>, 1, Len(s))

get_number_string(addr, network) == DigitsToString(AddrStr(addr, network))

\* expect("Invalid Digit") fails: some character is no decimal digit
InvalidDigit(s) ==
    \E i \in 1..Len(s) : to_digit(s[i], 10) = None

\* ChecksumStep reducing modulo 98
ChecksumStep_mod98(acc, digit) == (acc * 10 + digit) % 98

\* the closure of the fold in calculate_checksum
ChecksumStep(acc, digit) == (acc * 10 + digit) % 97

\* the accumulator of that fold after the first k characters of s
FoldAcc(s, k) ==
    LET step(acc, i) == ChecksumStep(acc, to_digit(s[i], 10))
    IN  FoldRange(step, 0, 1, k)

\* calculate_checksum subtracting from 97
calculate_checksum_from97(s) == 97 - FoldAcc(s, Len(s))

\* calculate_checksum returning the remainder itself
calculate_checksum_remainder(s) == FoldAcc(s, Len(s))

calculate_checksum(s) == 98 - FoldAcc(s, Len(s))

\* B176::from_str(text) is an Err: the text (after one leading "0x", if any) is not
\* exactly two hex characters for each of the 22 bytes
FromStrErr(t) ==
    LET input == IF Len(t) >= 2 /\ t[1] = "0" /\ t[2] = "x" THEN SubSeq(t, 3, Len(t)) ELSE t
    IN  \/ Len(input) # 2 * B176Len
        \/ \E i \in 1..Len(input) : to_digit(input[i], 16) = None

\* B176::from_str(text) when it is Ok: the bytes the hex pairs write
FromHex(t) ==
    [i \in 1..(Len(t) \div 2) |-> to_digit(t[2 * i - 1], 16) * 16 + to_digit(t[2 * i], 16)]

FromStr(t) ==
    FromHex(IF Len(t) >= 2 /\ t[1] = "0" /\ t[2] = "x" THEN SubSeq(t, 3, Len(t)) ELSE t)

\* construct_ican_address without the leading zero of a checksum below 10
construct_ican_address_nopad(prefix, sum, addr) ==
    LET addr_hex == replace_0x(DebugFormat(addr))
        formated == prefix \o to_string(sum) \o addr_hex
        printed  == IF sum < 10 THEN <<>> ELSE <<formated>>
    IN  IF FromStrErr(formated)
        THEN [outcome |-> "panic", text |-> formated, stdout |-> printed, result |-> <<>>]
        ELSE [outcome |-> "ok", text |-> formated, stdout |-> printed,
              result |-> FromStr(formated)]

\* construct_ican_address: the text it formats, the lines it prints, the B176 it parses
construct_ican_address(prefix, sum, addr) ==
    LET addr_hex == replace_0x(DebugFormat(addr))
        formated == IF sum < 10
                    THEN prefix \o <<"0">> \o to_string(sum) \o addr_hex
                    ELSE prefix \o to_string(sum) \o addr_hex
        printed  == IF sum < 10 THEN <<>> ELSE <<formated>>
    IN  IF FromStrErr(formated)
        THEN [outcome |-> "panic", text |-> formated, stdout |-> printed, result |-> <<>>]
        ELSE [outcome |-> "ok", text |-> formated, stdout |-> printed,
              result |-> FromStr(formated)]

\* what a call leaves behind when it panics before construct_ican_address
Panicked(ns) ==
    [outcome |-> "panic", number_str |-> ns, checksum |-> None, text |-> <<>>,
     stdout |-> <<>>, result |-> <<>>]

to_ican(addr, network) ==
    LET prefix == Prefix(network) IN
    IF InvalidAddress(AddrStr(addr, network)) THEN Panicked(<<>>)
    ELSE LET ns == get_number_string(addr, network) IN
         IF InvalidDigit(ns) THEN Panicked(ns)
         ELSE LET sum == calculate_checksum(ns)
                  c   == construct_ican_address(prefix, sum, addr)
              IN  [outcome |-> c.outcome, number_str |-> ns, checksum |-> sum,
                   text |-> c.text, stdout |-> c.stdout, result |-> c.result]

----------------------------------------------------------------------------
(* Address derivation *)

\* Stand-in for the sha3 crate's Keccak256 (an external library, not part of the
\* file): a deterministic function from a byte sequence to 32 bytes that depends on
\* every byte of its input and on their order.  The model uses it only as "the
\* digest of these bytes"; nothing checked rests on a property of Keccak itself.
Absorb(seed, input) ==
    LET step(acc, i) == (acc * 131 + input[i] + 1) % 999983
    IN  FoldRange(step, seed, 1, Len(input))

keccak256(input) ==
    [i \in 1..HashLen |-> ((Absorb(7, input) + 1) * (2 * i + 1) + i * Len(input)) % 256]

\* the big-endian bytes of n without leading zero bytes (none for 0)
RECURSIVE MinimalBeBytes(_)
MinimalBeBytes(n) ==
    IF n = 0 THEN <<>> ELSE MinimalBeBytes(n \div 256) \o <<n % 256>>

\* RlpStream::append of a byte string shorter than 56 bytes
RlpBytes(b) ==
    IF Len(b) = 1 /\ b[1] < 128 THEN b ELSE <<128 + Len(b)>> \o b

\* RlpStream::append of a u64: its minimal big-endian bytes as a byte string
RlpU64(n) == RlpBytes(MinimalBeBytes(n))

\* RlpStream::new_list(2) and its two appends, a payload shorter than 56 bytes
RlpList2(item1, item2) == <<192 + Len(item1) + Len(item2)>> \o item1 \o item2

\* U256::to_be_bytes::<32>: n as exactly `width` big-endian bytes
to_be_bytes(n, width) ==
    LET step(acc, i) == [rest |-> acc.rest \div 256, bytes |-> <<acc.rest % 256>> \o acc.bytes]
    IN  FoldRange(step, [rest |-> n, bytes |-> <<>>], 1, width).bytes

\* CreatePreimage with the nonce appended before the caller
CreatePreimage_noncefirst(caller, nonce) == RlpList2(RlpU64(nonce), RlpBytes(caller))

\* create_address, lines 27-29: stream.out()
CreatePreimage(caller, nonce) == RlpList2(RlpBytes(caller), RlpU64(nonce))

\* Create2Preimage with the code hash before the salt
Create2Preimage_hashfirst(caller, code_hash, salt) ==
    <<255>> \o caller \o code_hash \o to_be_bytes(salt, U256Bytes)

\* create2_address, lines 41-45: the bytes the hasher is updated with
Create2Preimage(caller, code_hash, salt) ==
    <<255>> \o caller \o to_be_bytes(salt, U256Bytes) \o code_hash

\* out[12..]: the last 20 bytes of the hash
Last20(out) == SubSeq(out, 13, Len(out))

\* CreateNetwork taking the network of the caller's own prefix byte
CreateNetwork_ofcaller(caller) ==
    CASE caller[1] = 171 -> "Testnet"
      [] caller[1] = 206 -> "Private"
      [] OTHER -> "Mainnet"

\* the network both derivation functions hand to to_ican
CreateNetwork(caller) == "Mainnet"

create_address(caller, nonce) ==
    to_ican(Last20(keccak256(CreatePreimage(caller, nonce))), CreateNetwork(caller))

create2_address(caller, code_hash, salt) ==
    to_ican(Last20(keccak256(Create2Preimage(caller, code_hash, salt))),
            CreateNetwork(caller))

----------------------------------------------------------------------------
(* The calls of the instance *)

\* the address of the file's tests: e8cF4629ACB360350399B6CFF367A97CF36E62B9
TestAddr ==
    <<232, 207, 70, 41, 172, 179, 96, 53, 3, 153,
      182, 207, 243, 103, 169, 124, 243, 110, 98, 185>>

ZeroAddr == [i \in 1..B160Len |-> 0]
FullAddr == [i \in 1..B160Len |-> 255]

HiBytes == {0, 10, 232, 255}

Addresses ==
    {TestAddr} \cup
    {[b EXCEPT ![1] = hi, ![B160Len] = lo] :
        b \in {TestAddr, ZeroAddr, FullAddr}, hi \in HiBytes, lo \in 0..MaxLow}

DecDigits == {DecChars[i] : i \in 1..10}

\* 9-digit decimal strings: the longest whose value a 32-bit integer holds
LongDigitStrings ==
    {<<"9", "9", "9", "9", "9", "9", "9", "9", "9">>,
     <<"0", "0", "0", "0", "0", "0", "0", "9", "7">>,
     <<"1", "2", "3", "4", "5", "6", "7", "8", "9">>,
     <<"1", "0", "0", "0", "0", "0", "0", "0", "0">>}

DigitStrings ==
    LongDigitStrings \cup UNION {[1..k -> DecDigits] : k \in 1..MaxDigits}

\* B176 callers: a prefix byte, a checksum byte and 20 address bytes; the type does
\* not require the first two bytes to be a valid prefix and checksum
Callers ==
    {<<p, c>> \o a : p \in {203, 171, 206, 0}, c \in {114, 9},
                     a \in {TestAddr, [TestAddr EXCEPT ![B160Len] = 186], ZeroAddr}}

Nonces == (0..MaxNonce) \cup {127, 128, 255, 256, 65536}

CodeHashes == {[i \in 1..HashLen |-> 10], [i \in 1..HashLen |-> 11]}

Salts == {0, 1, 239048}

NoCall ==
    [op |-> "none", addr |-> <<>>, network |-> "Mainnet", caller |-> <<>>,
     nonce |-> 0, code_hash |-> <<>>, salt |-> 0, s |-> <<>>]

Calls ==
    {[NoCall EXCEPT !.op = "to_ican", !.addr = a, !.network = n] :
        a \in Addresses, n \in NetworkType}
    \cup
    {[NoCall EXCEPT !.op = "get_number_string", !.addr = a, !.network = n] :
        a \in Addresses, n \in NetworkType}
    \cup
    {[NoCall EXCEPT !.op = "calculate_checksum", !.s = d] : d \in DigitStrings}
    \cup
    {[NoCall EXCEPT !.op = "create_address", !.caller = c, !.nonce = k] :
        c \in Callers, k \in Nonces}
    \cup
    {[NoCall EXCEPT !.op = "create2_address", !.caller = c, !.code_hash = h, !.salt = t] :
        c \in Callers, h \in CodeHashes, t \in Salts}

----------------------------------------------------------------------------
(* The state machine: one call, from "ready" to "done" *)

Init ==
    /\ pc = "ready"
    /\ call \in Calls
    /\ preimage = <<>>
    /\ digest = <<>>
    /\ raw = <<>>
    /\ number_str = <<>>
    /\ checksum = None
    /\ text = <<>>
    /\ result = <<>>
    /\ outcome = "none"
    /\ stdout = <<>>

\* the state a call of to_ican(addr, network) leaves
Encoded(addr, r) ==
    /\ raw' = addr
    /\ number_str' = r.number_str
    /\ checksum' = r.checksum
    /\ text' = r.text
    /\ result' = r.result
    /\ outcome' = r.outcome
    /\ stdout' = stdout \o r.stdout

ToIcan ==
    /\ pc = "ready"
    /\ call.op = "to_ican"
    /\ Encoded(call.addr, to_ican(call.addr, call.network))
    /\ pc' = "done"
    /\ UNCHANGED <<call, preimage, digest>>

GetNumberString ==
    /\ pc = "ready"
    /\ call.op = "get_number_string"
    /\ raw' = call.addr
    /\ IF InvalidAddress(AddrStr(call.addr, call.network))
       THEN /\ outcome' = "panic"
            /\ number_str' = <<>>
       ELSE /\ outcome' = "ok"
            /\ number_str' = get_number_string(call.addr, call.network)
    /\ pc' = "done"
    /\ UNCHANGED <<call, preimage, digest, checksum, text, result, stdout>>

CalculateChecksum ==
    /\ pc = "ready"
    /\ call.op = "calculate_checksum"
    /\ number_str' = call.s
    /\ IF InvalidDigit(call.s)
       THEN /\ outcome' = "panic"
            /\ checksum' = None
       ELSE /\ outcome' = "ok"
            /\ checksum' = calculate_checksum(call.s)
    /\ pc' = "done"
    /\ UNCHANGED <<call, preimage, digest, raw, text, result, stdout>>

CreateAddress ==
    /\ pc = "ready"
    /\ call.op = "create_address"
    /\ LET stream == CreatePreimage(call.caller, call.nonce)
           out    == keccak256(stream)
       IN  /\ preimage' = stream
           /\ digest' = out
           /\ Encoded(Last20(out), create_address(call.caller, call.nonce))
    /\ pc' = "done"
    /\ UNCHANGED call

Create2Address ==
    /\ pc = "ready"
    /\ call.op = "create2_address"
    /\ LET hashed == Create2Preimage(call.caller, call.code_hash, call.salt)
           out    == keccak256(hashed)
       IN  /\ preimage' = hashed
           /\ digest' = out
           /\ Encoded(Last20(out),
                      create2_address(call.caller, call.code_hash, call.salt))
    /\ pc' = "done"
    /\ UNCHANGED call

Next ==
    \/ ToIcan
    \/ GetNumberString
    \/ CalculateChecksum
    \/ CreateAddress
    \/ Create2Address

Spec == Init /\ [][Next]_vars

----------------------------------------------------------------------------
(* What the properties are stated with: the address as hex digit values, decimal
   numerals and their values, computed from the bytes and not from the text the
   code builds *)

\* the 40 hex digit values of a 20-byte address, high digit of each byte first
Nibbles(addr) ==
    [i \in 1..(2 * Len(addr)) |->
        IF i % 2 = 1 THEN addr[(i + 1) \div 2] \div 16 ELSE addr[i \div 2] % 16]

\* the hex digit values of the two prefix characters of a network
PrefixNibbles(network) ==
    CASE network = "Mainnet" -> <<12, 11>>
      [] network = "Testnet" -> <<10, 11>>
      [] network = "Private" -> <<12, 14>>

\* the two prefix characters of a network
PrefixText(network) ==
    CASE network = "Mainnet" -> <<"c", "b">>
      [] network = "Testnet" -> <<"a", "b">>
      [] network = "Private" -> <<"c", "e">>

\* the decimal text of a hex digit value: one character below 10, "10".."15" above
NibbleText(v) ==
    IF v < 10 THEN <<DecChars[v + 1]>> ELSE <<"1", DecChars[v - 9]>>

\* the decimal texts of the digit values of (address, prefix, "00"), concatenated
ExpectedNumberString(addr, network) ==
    LET vs == Nibbles(addr) \o PrefixNibbles(network) \o <<0, 0>>
        step(acc, i) == acc \o NibbleText(vs[i])
    IN  FoldRange(step, <<>>, 1, Len(vs))

\* the value of a decimal digit character
DecDigitValue(ch) == CHOOSE d \in 0..9 : DecChars[d + 1] = ch

\* the integer a decimal numeral of at most 9 digits writes
RECURSIVE DecValue(_)
DecValue(s) ==
    IF s = <<>> THEN 0
    ELSE DecValue(SubSeq(s, 1, Len(s) - 1)) * 10 + DecDigitValue(s[Len(s)])

\* <<10^0, 10^1, .., 10^(n-1)>> modulo 97
Pow10Mod97(n) ==
    LET step(acc, i) == Append(acc, (acc[i - 1] * 10) % 97)
    IN  FoldRange(step, <<1>>, 2, n)

\* a decimal numeral of any length modulo 97: the sum of its digits, each weighted
\* by its power of ten modulo 97
NumeralMod97(s) ==
    LET n == Len(s)
        w == Pow10Mod97(n)
        step(acc, i) == acc + DecDigitValue(s[i]) * w[n - i + 1]
    IN  FoldRange(step, 0, 1, n) % 97

\* the number big-endian bytes write (below 2^31)
BeValue(bytes) ==
    LET step(acc, i) == acc * 256 + bytes[i]
    IN  FoldRange(step, 0, 1, Len(bytes))

\* the list-encoding field of an unsigned integer: a single byte below 128 is the
\* field itself, anything else is a length byte and the shortest big-endian bytes
IsIntegerField(f, n) ==
    IF n > 0 /\ n < 128 THEN f = <<n>>
    ELSE /\ Len(f) >= 1
         /\ f[1] = 128 + Len(f) - 1
         /\ Len(f) > 1 => f[2] # 0
         /\ BeValue(SubSeq(f, 2, Len(f))) = n

HexChars == {LowerHexChars[i] : i \in 1..16} \cup {UpperHexChars[i] : i \in 1..16}

\* the number string of the file's test for TestAddr on Mainnet
TestNumberStr ==
    <<"1", "4", "8", "1", "2", "1", "5", "4", "6", "2", "9", "1", "0", "1", "2", "1",
      "1", "3", "6", "0", "3", "5", "0", "3", "9", "9", "1", "1", "6", "1", "2", "1",
      "5", "1", "5", "3", "6", "7", "1", "0", "9", "7", "1", "2", "1", "5", "3", "6",
      "1", "4", "6", "2", "1", "1", "9", "1", "2", "1", "1", "0", "0">>

Done(op) == pc = "done" /\ call.op = op

Encodes == Done("to_ican") \/ Done("create_address") \/ Done("create2_address")

----------------------------------------------------------------------------
(* Properties *)

\* C1: for every 20-byte address and every network, the text to_ican assembles is
\* exactly 44 characters: the network's 2-character prefix, then 2 decimal digits,
\* then the 40 (lowercase) hex characters of the address.
C1_Layout ==
    Done("to_ican") =>
        /\ Len(text) = 44
        /\ SubSeq(text, 1, 2) = PrefixText(call.network)
        /\ text[3] \in DecDigits
        /\ text[4] \in DecDigits
        /\ SubSeq(text, 5, 44) =
               [i \in 1..40 |-> LowerHexChars[Nibbles(call.addr)[i] + 1]]

\* a Private-network address whose checksum is below 10 has been encoded
C1_Witness ==
    /\ Done("to_ican")
    /\ call.network = "Private"
    /\ checksum < 10
    /\ outcome = "ok"

\* C2: the checksum of an address's number string lies in 2..98, is written as
\* exactly two decimal digits (a leading "0" below 10), and the two digits read back
\* give the same value.
C2_ChecksumDigits ==
    (Encodes /\ outcome = "ok") =>
        /\ checksum \in 2..98
        /\ Len(text) = 4 + 2 * B160Len
        /\ text[3] \in DecDigits
        /\ text[4] \in DecDigits
        /\ DecDigitValue(text[3]) * 10 + DecDigitValue(text[4]) = checksum
        /\ checksum < 10 => text[3] = "0"

\* both ends of the range have been written: a checksum of 2 (below 10, padded)
\* on Mainnet, the state after a call whose checksum needs the leading "0"
C2_Witness ==
    /\ Done("to_ican")
    /\ outcome = "ok"
    /\ checksum = 2
    /\ text[3] = "0"
    /\ text[4] = "2"

\* C3 as stated: the pre-image of create_address is the list encoding of the
\* caller's raw 20 bytes (without the prefix byte and the checksum byte) and the
\* nonce, and the derived address is the last 20 bytes of the 32-byte digest.
C3_Raw20Preimage ==
    Done("create_address") =>
        /\ preimage[1] = 192 + Len(preimage) - 1
        /\ preimage[2] = 128 + B160Len
        /\ SubSeq(preimage, 3, 2 + B160Len) = SubSeq(call.caller, 3, B176Len)
        /\ IsIntegerField(SubSeq(preimage, 3 + B160Len, Len(preimage)), call.nonce)
        /\ Len(digest) = 32
        /\ raw = SubSeq(digest, 13, 32)

\* C3 amended: the pre-image of create_address is the list encoding of two fields
\* in this order, the caller's whole 22-byte address (prefix byte, checksum byte
\* and the 20 raw bytes) and the nonce; the derived raw address is the last 20
\* bytes of the 32-byte digest of that encoding, and the returned address ends
\* with it.
C3_Preimage ==
    Done("create_address") =>
        /\ preimage[1] = 192 + Len(preimage) - 1
        /\ preimage[2] = 128 + B176Len
        /\ SubSeq(preimage, 3, 2 + B176Len) = call.caller
        /\ IsIntegerField(SubSeq(preimage, 3 + B176Len, Len(preimage)), call.nonce)
        /\ Len(digest) = 32
        /\ raw = SubSeq(digest, 13, 32)
        /\ outcome = "ok" => SubSeq(result, 3, B176Len) = raw

\* create_address has run with a nonce that takes a length byte and two bytes
C3_Witness ==
    /\ Done("create_address")
    /\ call.nonce = 256
    /\ outcome = "ok"
    /\ Len(preimage) = 27

\* C4 as stated: the bytes create2_address hashes are 0xFF, the caller's raw 20
\* bytes, the 32-byte big-endian salt and the 32-byte code_hash, 85 bytes in all,
\* and the derived address is the last 20 bytes of the 32-byte digest.
C4_Raw20Preimage ==
    Done("create2_address") =>
        /\ Len(preimage) = 85
        /\ preimage[1] = 255
        /\ SubSeq(preimage, 2, 21) = SubSeq(call.caller, 3, B176Len)
        /\ BeValue(SubSeq(preimage, 22, 53)) = call.salt
        /\ SubSeq(preimage, 54, 85) = call.code_hash
        /\ Len(digest) = 32
        /\ raw = SubSeq(digest, 13, 32)

\* C4 amended: the bytes create2_address hashes are, in this order, the byte 0xFF,
\* the caller's whole 22-byte address (prefix byte, checksum byte and the 20 raw
\* bytes), the 32-byte big-endian salt and the 32-byte code_hash, 87 bytes in all;
\* the derived raw address is the last 20 bytes of the 32-byte digest, and the
\* returned address ends with it.
C4_Preimage ==
    Done("create2_address") =>
        /\ Len(preimage) = 87
        /\ preimage[1] = 255
        /\ SubSeq(preimage, 2, 23) = call.caller
        /\ SubSeq(preimage, 56, 87) = call.code_hash
        /\ BeValue(SubSeq(preimage, 24, 55)) = call.salt
        /\ Len(digest) = 32
        /\ raw = SubSeq(digest, 13, 32)
        /\ outcome = "ok" => SubSeq(result, 3, B176Len) = raw

\* create2_address has run with the salt of the file's tests
C4_Witness ==
    /\ Done("create2_address")
    /\ call.salt = 239048
    /\ outcome = "ok"
    /\ preimage[55] = 200

\* C5: whatever prefix the caller's own address carries, the address create_address
\* and create2_address return carries the Mainnet prefix "cb" and the checksum of
\* the derived raw address computed with the Mainnet prefix.
C5_AlwaysMainnet ==
    (Done("create_address") \/ Done("create2_address")) =>
        /\ outcome = "ok"
        /\ SubSeq(text, 1, 2) = <<"c", "b">>
        /\ result[1] = 203
        /\ checksum = 98 - NumeralMod97(ExpectedNumberString(raw, "Mainnet"))
        /\ result[2] = (checksum \div 10) * 16 + (checksum % 10)

\* an address has been derived for a caller whose own address has the Testnet prefix
C5_Witness ==
    /\ Done("create2_address")
    /\ call.caller[1] = 171
    /\ outcome = "ok"
    /\ result[1] = 203

\* C6: no call writes anything to standard output.
C6_NoOutput == stdout = <<>>

\* C7: to_ican returns for every address and network: every character handed to the
\* hex-digit conversion is a hex digit, every character handed to the decimal-digit
\* conversion is a decimal digit, and the text parsed into 22 bytes is 44 hex
\* characters.
C7_NeverFails ==
    Done("to_ican") =>
        /\ outcome = "ok"
        /\ Len(result) = B176Len
        /\ \A i \in 1..Len(AddrStr(call.addr, call.network)) :
               AddrStr(call.addr, call.network)[i] \in HexChars
        /\ number_str # <<>>
        /\ \A i \in 1..Len(number_str) : number_str[i] \in DecDigits
        /\ Len(text) = 2 * B176Len
        /\ \A i \in 1..Len(text) : text[i] \in HexChars

\* to_ican has returned an address on Testnet for ff..ff00, whose number string is
\* the longest of the instance
C7_Witness ==
    /\ Done("to_ican")
    /\ call.addr = [FullAddr EXCEPT ![B160Len] = 0]
    /\ call.network = "Testnet"
    /\ outcome = "ok"
    /\ Len(result) = B176Len

\* C8: get_number_string(a, n) is the concatenation, over the characters of (the 40
\* hex characters of a, the prefix of n, "00"), of the decimal text of each
\* character's hex digit value (a-f in either case give "10".."15"); for the test
\* address on Mainnet it is the test's string.
C8_NumberString ==
    (Done("get_number_string") \/ Done("to_ican")) =>
        /\ outcome = "ok"
        /\ number_str = ExpectedNumberString(call.addr, call.network)
        /\ \A v \in 0..15 :
               /\ to_string(to_digit(LowerHexChars[v + 1], 16)) = NibbleText(v)
               /\ to_string(to_digit(UpperHexChars[v + 1], 16)) = NibbleText(v)
        /\ (call.addr = TestAddr /\ call.network = "Mainnet") =>
               number_str = TestNumberStr

\* get_number_string has returned the test's string for the test address
C8_Witness ==
    /\ Done("get_number_string")
    /\ call.addr = TestAddr
    /\ call.network = "Mainnet"
    /\ number_str = TestNumberStr

\* C9: for a non-empty string s of decimal digits, calculate_checksum(s) is 98 minus
\* (the integer s writes, modulo 97); after every step the accumulator of the fold
\* is in 0..96 and is the integer written by the characters folded so far, modulo
\* 97.  On the long number string of an address the accumulator stays in 0..96 and
\* ends at the numeral's remainder; the test address on Mainnet gives 72.
C9_FoldIsMod97 ==
    /\ Done("calculate_checksum") =>
           /\ outcome = "ok"
           /\ checksum = 98 - (DecValue(call.s) % 97)
           /\ \A k \in 0..Len(call.s) :
                  /\ FoldAcc(call.s, k) \in 0..96
                  /\ FoldAcc(call.s, k) = DecValue(SubSeq(call.s, 1, k)) % 97
    /\ (Done("to_ican") /\ outcome = "ok") =>
           /\ \A k \in 0..Len(number_str) : FoldAcc(number_str, k) \in 0..96
           /\ checksum = 98 - NumeralMod97(number_str)
           /\ (call.addr = TestAddr /\ call.network = "Mainnet") => checksum = 72

\* calculate_checksum has run on a 9-digit string whose value is above 97
C9_Witness ==
    /\ Done("calculate_checksum")
    /\ Len(call.s) = 9
    /\ DecValue(call.s) = 999999999
    /\ checksum = 65

\* C10: with the placeholder "00" at the end of the number string replaced by the
\* two checksum digits written into the address, the numeral is congruent to 1
\* modulo 97.
C10_CheckDigitsValid ==
    (Encodes /\ outcome = "ok") =>
        NumeralMod97(SubSeq(number_str, 1, Len(number_str) - 2) \o <<text[3], text[4]>>) = 1

\* an address whose number string is a multiple of 97 (checksum 98) has been encoded
C10_Witness ==
    /\ Done("to_ican")
    /\ outcome = "ok"
    /\ checksum = 98
    /\ SubSeq(text, 3, 4) = <<"9", "8">>

====
